---- MODULE Spec2Model ----
(***************************************************************************)
(* State-machine model of pythoncad/new_api.py: drawings hold layers,      *)
(* layers hold entities, both carry visibility flags, and a drawing holds  *)
(* a list of geometric constraints that Drawing.solve hands to a cassowary *)
(* SimplexSolver.                                                          *)
(*                                                                         *)
(* Three specifications share the variables:                               *)
(*   Spec        Drawing <-> Layer membership and layer visibility         *)
(*   SpecEntity  Layer <-> LayerEntity membership and visibility           *)
(*   SpecSolve   constraints, Drawing.solve and Drawing.update             *)
(***************************************************************************)
EXTENDS Integers, Sequences, FiniteSets, TLC

(* ------------------------------ bounds -------------------------------- *)
NumDrawings == 2
NumLayers == 2
NumEntities == 2
MaxCoord == 1

(* ------------------------- program constants -------------------------- *)
\* Python's None, as the value of Layer.drawing and LayerEntity.layer.
None == 0
\* The length the tests pass to LengthConstraint / HorizontalLengthConstraint.
TestLength == 50

Drawings == 1 .. NumDrawings
Layers == 1 .. NumLayers
\* The entities the membership and visibility calls are applied to.
Entities == 1 .. NumEntities
\* The constraint classes relate two Points (test_solver: point1, point2); the
\* tests build one Segment (test_horizontal_segment).
Points == {1, 2}
Segments == {3}
AllEntities == Entities \cup Points \cup Segments
Coords == 0 .. MaxCoord

VARIABLES
    layers,           \* Drawing.layers: list of layers, per drawing
    constraints,      \* Drawing.constraints: list of constraints, per drawing
    layerDrawing,     \* Layer.drawing, per layer (None or a drawing)
    entities,         \* Layer.entities: list of entities, per layer
    layerVisible,     \* Layer.visible
    entityLayer,      \* LayerEntity.layer (None or a layer)
    entityVisible,    \* LayerEntity.visible
    px, py,           \* Point._x, Point._y
    solver_variables, \* Point.solver_variables: <<value of x var, value of y var>>
    call,             \* the call in progress or the last one made: its name and,
                      \* where a property refers to them, receiver and arguments
    todo,             \* layers the running hide_layers/show_layers loop has yet to visit
    ret,              \* what the last call returned ("None", "True", "False")
    err,              \* the exception the last call raised ("none" if it returned)
    prev,             \* history: the call before `call`, if a solve() that returned
    solved,           \* history: Drawing.solve has been called at least once
    snap              \* history: is_visible() of every entity just before Layer.hide()

vars == <<layers, constraints, layerDrawing, entities, layerVisible, entityLayer,
          entityVisible, px, py, solver_variables, call, todo, ret, err, prev,
          solved, snap>>

membershipVars == <<layers, layerDrawing, entities, entityLayer>>
visibleVars == <<layerVisible, entityVisible>>
pointVars == <<px, py, solver_variables>>

(* ------------------------------ helpers ------------------------------- *)
\* Python's `x in list`.
Contains(s, x) == \E i \in 1 .. Len(s) : s[i] = x

\* Number of occurrences of x in list s.
Count(s, x) == Cardinality({i \in 1 .. Len(s) : s[i] = x})

\* list.remove(x): drops the first occurrence; the list is returned unchanged
\* when x is absent (the caller sees ValueError, tested with Contains).
ListRemove(s, x) ==
    IF ~Contains(s, x) THEN s
    ELSE LET i == CHOOSE k \in 1 .. Len(s) :
                     s[k] = x /\ \A j \in 1 .. (k - 1) : s[j] # x
         IN  [j \in 1 .. (Len(s) - 1) |-> IF j < i THEN s[j] ELSE s[j + 1]]

\* [x for x in s if x not in exclude]
RECURSIVE Filter(_, _)
Filter(s, exclude) ==
    IF s = <<>> THEN <<>>
    ELSE IF Head(s) \in exclude THEN Filter(Tail(s), exclude)
         ELSE <<Head(s)>> \o Filter(Tail(s), exclude)

\* The `layers` argument of hide_layers/show_layers: None (given = FALSE) or an
\* explicit list, here of at most one layer; `exclude`: at most one layer.
LayersArgs ==
    {[given |-> FALSE, list |-> <<>>]}
        \cup {[given |-> TRUE, list |-> ls] : ls \in {<<>>} \cup {<<l>> : l \in Layers}}
ExcludeArgs(S) == {{}} \cup {{x} : x \in S}

\* A call: method name, receiver, arguments, and for add_layer / add_entity the
\* parent the argument had when the call was made.
Call(op, self, args, from) == [op |-> op, self |-> self, args |-> args, from |-> from]
NoCall == Call("init", 0, <<>>, 0)
NoPrev == [op |-> "init", self |-> 0]
NoSnap == [e \in AllEntities |-> ""]

Idle == todo = <<>>

\* What `prev` keeps of the call that now ends being the last one: whether it
\* was a Drawing.solve() that returned, and on which drawing.
LastSolve ==
    IF call.op = "solve" /\ err = "none" THEN [op |-> "solve", self |-> call.self]
    ELSE NoPrev

(* ---------------------------- construction ---------------------------- *)
\* Drawing.__init__, Layer.__init__, LayerEntity.__init__ and the history variables.
InitObjects ==
    /\ layers = [d \in Drawings |-> <<>>]
    /\ constraints = [d \in Drawings |-> <<>>]
    /\ layerDrawing = [l \in Layers |-> None]
    /\ entities = [l \in Layers |-> <<>>]
    /\ layerVisible = [l \in Layers |-> TRUE]
    /\ entityLayer = [e \in AllEntities |-> None]
    /\ entityVisible = [e \in AllEntities |-> TRUE]

InitHistory ==
    /\ call = NoCall
    /\ todo = <<>>
    /\ ret = "None"
    /\ err = "none"
    /\ prev = NoPrev
    /\ solved = FALSE
    /\ snap = NoSnap

\* Point.__init__(x, y): the two solver variables start at the point's coordinates.
InitPoints ==
    /\ px \in [Points -> Coords]
    /\ py \in [Points -> Coords]
    /\ solver_variables = [p \in Points |-> <<px[p], py[p]>>]

Init ==
    /\ InitObjects
    /\ InitHistory
    /\ InitPoints
    /\ px = [p \in Points |-> 0]
    /\ py = [p \in Points |-> 0]

(* ------------------------- Drawing <-> Layer -------------------------- *)
\* Drawing.remove_layer(layer) as a function of the membership state:
\* <<layers, layerDrawing>> after the call.
RemoveLayerState(ls, ld, d, l) ==
    IF Contains(ls[d], l)
    THEN <<[ls EXCEPT ![d] = ListRemove(@, l)], [ld EXCEPT ![l] = None]>>
    ELSE <<ls, ld>>   \* ValueError: layer not part of this drawing

\* A plausible slip: add_layer that does not detach the layer from its old drawing.
AddLayerNoDetach(d, l) ==
    /\ Idle
    /\ layers' = [layers EXCEPT ![d] = Append(@, l)]
    /\ layerDrawing' = [layerDrawing EXCEPT ![l] = d]
    /\ call' = Call("add_layer", d, <<l>>, layerDrawing[l])
    /\ ret' = "None" /\ err' = "none" /\ snap' = NoSnap
    /\ UNCHANGED <<constraints, entities, entityLayer, visibleVars, pointVars,
                   todo, prev, solved>>

\* Drawing.add_layer(layer)
AddLayer(d, l) ==
    /\ Idle
    /\ LET old == layerDrawing[l]
           detached == IF old = None
                       THEN <<layers, layerDrawing>>   \* AttributeError, passed
                       ELSE RemoveLayerState(layers, layerDrawing, old, l)
       IN  /\ layers' = [detached[1] EXCEPT ![d] = Append(@, l)]
           /\ layerDrawing' = [detached[2] EXCEPT ![l] = d]
    /\ call' = Call("add_layer", d, <<l>>, layerDrawing[l])
    /\ ret' = "None" /\ err' = "none" /\ snap' = NoSnap
    /\ UNCHANGED <<constraints, entities, entityLayer, visibleVars, pointVars,
                   todo, prev, solved>>

\* Drawing.remove_layer(layer)
RemoveLayer(d, l) ==
    /\ Idle
    /\ LET after == RemoveLayerState(layers, layerDrawing, d, l)
       IN  layers' = after[1] /\ layerDrawing' = after[2]
    /\ call' = Call("remove_layer", d, <<l>>, 0)
    /\ ret' = "None" /\ err' = "none" /\ snap' = NoSnap
    /\ UNCHANGED <<constraints, entities, entityLayer, visibleVars, pointVars,
                   todo, prev, solved>>

(* ----------------------------- visibility ----------------------------- *)
\* LayerEntity.is_visible(): "True", "False", or the AttributeError that
\* `self.layer.visible` raises when self.layer is None (`and` short-circuits on
\* a hidden entity, so that case returns False without touching the layer).
IsVisibleResult(e) ==
    IF ~entityVisible[e] THEN "False"
    ELSE IF entityLayer[e] = None THEN "AttributeError"
    ELSE IF layerVisible[entityLayer[e]] THEN "True"
    ELSE "False"

\* LayerEntity.is_visible() as a call
IsVisible(e) ==
    /\ Idle
    /\ LET r == IsVisibleResult(e)
       IN  IF r = "AttributeError"
           THEN ret' = "None" /\ err' = "AttributeError"
           ELSE ret' = r /\ err' = "none"
    /\ call' = Call("is_visible", e, <<>>, 0)
    /\ snap' = NoSnap
    /\ UNCHANGED <<membershipVars, constraints, visibleVars, pointVars, todo,
                   prev, solved>>

\* A plausible slip: Layer.hide that also hides every entity of the layer.
LayerHideEntities(l) ==
    /\ Idle
    /\ layerVisible' = [layerVisible EXCEPT ![l] = FALSE]
    /\ entityVisible' = [e \in AllEntities |->
                            IF Contains(entities[l], e) THEN FALSE
                            ELSE entityVisible[e]]
    /\ snap' = IF layerVisible[l] THEN [e \in AllEntities |-> IsVisibleResult(e)]
               ELSE NoSnap
    /\ call' = Call("hide", l, <<>>, 0)
    /\ ret' = "None" /\ err' = "none"
    /\ UNCHANGED <<membershipVars, constraints, pointVars, todo, prev, solved>>

\* Layer.hide()
LayerHide(l) ==
    /\ Idle
    /\ layerVisible' = [layerVisible EXCEPT ![l] = FALSE]
    /\ snap' = IF layerVisible[l] THEN [e \in AllEntities |-> IsVisibleResult(e)]
               ELSE NoSnap
    /\ call' = Call("hide", l, <<>>, 0)
    /\ ret' = "None" /\ err' = "none"
    /\ UNCHANGED <<membershipVars, constraints, entityVisible, pointVars, todo,
                   prev, solved>>

\* Layer.show()
LayerShow(l) ==
    /\ Idle
    /\ layerVisible' = [layerVisible EXCEPT ![l] = TRUE]
    /\ snap' = IF call = Call("hide", l, <<>>, 0) THEN snap ELSE NoSnap
    /\ call' = Call("show", l, <<>>, 0)
    /\ ret' = "None" /\ err' = "none"
    /\ UNCHANGED <<membershipVars, constraints, entityVisible, pointVars, todo,
                   prev, solved>>

\* LayerEntity.hide()
EntityHide(e) ==
    /\ Idle
    /\ entityVisible' = [entityVisible EXCEPT ![e] = FALSE]
    /\ call' = Call("entity_hide", 0, <<>>, 0)
    /\ ret' = "None" /\ err' = "none" /\ snap' = NoSnap
    /\ UNCHANGED <<membershipVars, constraints, layerVisible, pointVars, todo,
                   prev, solved>>

\* LayerEntity.show()
EntityShow(e) ==
    /\ Idle
    /\ entityVisible' = [entityVisible EXCEPT ![e] = TRUE]
    /\ call' = Call("entity_show", 0, <<>>, 0)
    /\ ret' = "None" /\ err' = "none" /\ snap' = NoSnap
    /\ UNCHANGED <<membershipVars, constraints, layerVisible, pointVars, todo,
                   prev, solved>>

\* Drawing.filter_layers(layers, exclude); `given` is FALSE for layers=None.
FilterLayers(d, given, ls, exclude) ==
    Filter(IF given THEN ls ELSE layers[d], exclude)

\* Drawing.hide_layers(layers, exclude): the call; the loop body runs in LoopStep.
HideLayers(d, given, ls, exclude) ==
    /\ Idle
    /\ todo' = FilterLayers(d, given, ls, exclude)
    /\ call' = Call("hide_layers", d, <<>>, 0)
    /\ ret' = "None" /\ err' = "none" /\ snap' = NoSnap
    /\ UNCHANGED <<membershipVars, constraints, visibleVars, pointVars, prev,
                   solved>>

\* Drawing.show_layers(layers, exclude): the call; the loop body runs in LoopStep.
ShowLayers(d, given, ls, exclude) ==
    /\ Idle
    /\ todo' = FilterLayers(d, given, ls, exclude)
    /\ call' = Call("show_layers", d, <<>>, 0)
    /\ ret' = "None" /\ err' = "none" /\ snap' = NoSnap
    /\ UNCHANGED <<membershipVars, constraints, visibleVars, pointVars, prev,
                   solved>>

\* A plausible slip: isolate_layer that forgets the exclude list.
IsolateLayerNoExclude(d, l) ==
    /\ Idle
    /\ layerVisible' = [layerVisible EXCEPT ![l] = TRUE]
    /\ todo' = FilterLayers(d, FALSE, <<>>, {})
    /\ call' = Call("isolate_layer", d, <<l>>, 0)
    /\ ret' = "None" /\ err' = "none" /\ snap' = NoSnap
    /\ UNCHANGED <<membershipVars, constraints, entityVisible, pointVars, prev,
                   solved>>

\* Drawing.isolate_layer(layer): layer.show(), then hide_layers(exclude=[layer]),
\* whose loop body runs in LoopStep.
IsolateLayer(d, l) ==
    /\ Idle
    /\ layerVisible' = [layerVisible EXCEPT ![l] = TRUE]
    /\ todo' = FilterLayers(d, FALSE, <<>>, {l})
    /\ call' = Call("isolate_layer", d, <<l>>, 0)
    /\ ret' = "None" /\ err' = "none" /\ snap' = NoSnap
    /\ UNCHANGED <<membershipVars, constraints, entityVisible, pointVars, prev,
                   solved>>

\* One iteration of `for layer in self.filter_layers(...)`: layer.hide() in
\* hide_layers (also when reached from isolate_layer), layer.show() in show_layers.
LoopStep ==
    /\ ~Idle
    /\ layerVisible' = [layerVisible EXCEPT ![Head(todo)] = (call.op = "show_layers")]
    /\ todo' = Tail(todo)
    /\ UNCHANGED <<membershipVars, constraints, entityVisible, pointVars, call,
                   ret, err, prev, solved, snap>>

(* -------------------------- Layer <-> Entity -------------------------- *)
\* Layer.remove_entity(entity) as a function of the membership state:
\* <<entities, entityLayer>> after the call.
RemoveEntityState(es, el, l, e) ==
    IF Contains(es[l], e)
    THEN <<[es EXCEPT ![l] = ListRemove(@, e)], [el EXCEPT ![e] = None]>>
    ELSE <<es, el>>   \* ValueError: entity is not bound to this layer

\* A plausible slip: add_entity that copies the entity instead of moving it.
AddEntityCopy(l, e) ==
    /\ Idle
    /\ entities' = [entities EXCEPT ![l] = Append(@, e)]
    /\ entityLayer' = [entityLayer EXCEPT ![e] = l]
    /\ call' = Call("add_entity", l, <<e>>, entityLayer[e])
    /\ ret' = "None" /\ err' = "none" /\ snap' = NoSnap
    /\ UNCHANGED <<layers, layerDrawing, constraints, visibleVars, pointVars,
                   todo, prev, solved>>

\* Layer.add_entity(entity)
AddEntity(l, e) ==
    /\ Idle
    /\ LET old == entityLayer[e]
           detached == IF old = None
                       THEN <<entities, entityLayer>>   \* AttributeError, passed
                       ELSE RemoveEntityState(entities, entityLayer, old, e)
       IN  /\ entities' = [detached[1] EXCEPT ![l] = Append(@, e)]
           /\ entityLayer' = [detached[2] EXCEPT ![e] = l]
    /\ call' = Call("add_entity", l, <<e>>, entityLayer[e])
    /\ ret' = "None" /\ err' = "none" /\ snap' = NoSnap
    /\ UNCHANGED <<layers, layerDrawing, constraints, visibleVars, pointVars,
                   todo, prev, solved>>

\* Layer.remove_entity(entity)
RemoveEntity(l, e) ==
    /\ Idle
    /\ LET after == RemoveEntityState(entities, entityLayer, l, e)
       IN  entities' = after[1] /\ entityLayer' = after[2]
    /\ call' = Call("remove_entity", l, <<e>>, 0)
    /\ ret' = "None" /\ err' = "none" /\ snap' = NoSnap
    /\ UNCHANGED <<layers, layerDrawing, constraints, visibleVars, pointVars,
                   todo, prev, solved>>

\* Layer.filter_entities(entities, exclude) with entities=None
FilterEntities(l, exclude) == Filter(entities[l], exclude)

\* Layer.hide_entities(exclude=...) / Layer.show_entities(exclude=...):
\* entity.hide() / entity.show() on every entity of the layer not excluded.
SetEntities(l, exclude, visible) ==
    /\ Idle
    /\ entityVisible' = [e \in AllEntities |->
                            IF Contains(FilterEntities(l, exclude), e) THEN visible
                            ELSE entityVisible[e]]
    /\ call' = Call(IF visible THEN "show_entities" ELSE "hide_entities", 0, <<>>, 0)
    /\ ret' = "None" /\ err' = "none" /\ snap' = NoSnap
    /\ UNCHANGED <<membershipVars, constraints, layerVisible, pointVars, todo,
                   prev, solved>>

(* ----------------------- constraints and solving ---------------------- *)
Constraint(kind, args) == [kind |-> kind, args |-> args]

\* Positional parameters of each constraint class's __init__ (besides self).
Arity(kind) ==
    CASE kind = "FixedConstraint" -> 1
      [] kind = "HorizontalConstraint" -> 2
      [] kind = "VerticalConstraint" -> 2
      [] kind = "LengthConstraint" -> 3
      [] kind = "HorizontalLengthConstraint" -> 3

\* The constructor calls the tests make: constraints on point1 and point2, and
\* HorizontalConstraint(segment).
ConstraintInputs ==
    {Constraint("FixedConstraint", <<p>>) : p \in Points}
        \cup {Constraint(k, <<1, 2>>) : k \in {"HorizontalConstraint", "VerticalConstraint"}}
        \cup {Constraint("HorizontalConstraint", <<s>>) : s \in Segments}
        \cup {Constraint(k, <<1, 2, TestLength>>) :
                 k \in {"LengthConstraint", "HorizontalLengthConstraint"}}

\* The drawing SpecSolve's calls are made on.
ConstrainedDrawings == {1}

\* The constraint lists the calls build up: those of the tests (test_solver,
\* test_fixed_constraint, test_length_constraint,
\* test_horizontal_length_constraint) and the same constraints in another order.
ConstraintLists ==
    LET F1 == Constraint("FixedConstraint", <<1>>)
        F2 == Constraint("FixedConstraint", <<2>>)
        H == Constraint("HorizontalConstraint", <<1, 2>>)
        V == Constraint("VerticalConstraint", <<1, 2>>)
        L == Constraint("LengthConstraint", <<1, 2, TestLength>>)
        HL == Constraint("HorizontalLengthConstraint", <<1, 2, TestLength>>)
    IN  {<<H, V>>, <<V, H>>, <<F1, F2, H>>, <<H, F1, F2>>, <<F2, V>>, <<H, L>>, <<H, HL>>}

IsPrefix(s, t) == Len(s) <= Len(t) /\ \A i \in 1 .. Len(s) : s[i] = t[i]

\* drawing.add_constraint(Kind(*args)): the constructor raises TypeError when
\* the number of arguments is not the number of its parameters, and then
\* add_constraint is never reached.
AddConstraint(d, kind, args) ==
    /\ Idle
    /\ IF Len(args) = Arity(kind)
       THEN /\ \E cl \in ConstraintLists :
                   IsPrefix(Append(constraints[d], Constraint(kind, args)), cl)
            /\ constraints' = [constraints EXCEPT ![d] = Append(@, Constraint(kind, args))]
            /\ err' = "none"
       ELSE /\ constraints' = constraints
            /\ err' = "TypeError"
    /\ call' = Call(kind, d, args, 0)
    /\ prev' = LastSolve
    /\ ret' = "None" /\ snap' = NoSnap
    /\ UNCHANGED <<membershipVars, visibleVars, pointVars, todo, solved>>

\* The solver's tableau, abstracted: the required rows added so far.  A row is
\* the equality of two variables (a = b) or a stay (a = val).  A variable is
\* <<point, i>>, i = 1 for solver_variables[0] (x), 2 for solver_variables[1] (y).
EqRow(a, b) == [stay |-> FALSE, a |-> a, b |-> b, val |-> 0]
StayRow(a, v) == [stay |-> TRUE, a |-> a, b |-> a, val |-> v]
RowVars(rows) == {r.a : r \in rows} \cup {r.b : r \in rows}
RowHolds(r, s) ==
    IF r.stay THEN s[r.a[1]][r.a[2]] = r.val
    ELSE s[r.a[1]][r.a[2]] = s[r.b[1]][r.b[2]]

\* The assignments a SimplexSolver may leave in the variables after a successful
\* add_constraint: every required row holds, and a variable the solver has never
\* been given keeps its value.
Solutions(rows, sv) ==
    LET known == RowVars(rows)
    IN  {s \in [Points -> Coords \X Coords] :
            /\ \A p \in Points, i \in 1 .. 2 : <<p, i>> \notin known => s[p][i] = sv[p][i]
            /\ \A r \in rows : RowHolds(r, s)}

\* SimplexSolver.add_constraint(row) with auto-solve: RequiredFailure when the
\* required rows have no solution (the variables are then left as they were),
\* else the variables take a solution.
SolverAdd(row, sv, rows) ==
    LET sols == Solutions(rows \cup {row}, sv)
    IN  IF sols = {}
        THEN {[sv |-> sv, rows |-> rows, err |-> "RequiredFailure"]}
        ELSE {[sv |-> s, rows |-> rows \cup {row}, err |-> "none"] : s \in sols}

\* SimplexSolver.add_stay(variable, REQUIRED): the variable stays at its current value.
AddStay(a, sv, rows) == SolverAdd(StayRow(a, sv[a[1]][a[2]]), sv, rows)

\* A plausible slip: FixedConstraint.apply that pins only the x variable.
FixedApplyXOnly(c, sv, rows) == AddStay(<<c.args[1], 1>>, sv, rows)

\* FixedConstraint.apply(solver)
FixedApply(c, sv, rows) ==
    UNION {IF r.err # "none" THEN {r} ELSE AddStay(<<c.args[1], 2>>, r.sv, r.rows) :
              r \in AddStay(<<c.args[1], 1>>, sv, rows)}

\* A plausible slip: HorizontalConstraint.apply that equates solver_variables[0].
HorizontalApplyX(c, sv, rows) ==
    SolverAdd(EqRow(<<c.args[1], 1>>, <<c.args[2], 1>>), sv, rows)

\* HorizontalConstraint.apply(solver)
HorizontalApply(c, sv, rows) ==
    SolverAdd(EqRow(<<c.args[1], 2>>, <<c.args[2], 2>>), sv, rows)

\* VerticalConstraint.apply(solver)
VerticalApply(c, sv, rows) ==
    SolverAdd(EqRow(<<c.args[1], 1>>, <<c.args[2], 1>>), sv, rows)

\* LengthConstraint.apply(solver): `(x)**2` on a cassowary expression raises
\* TypeError before anything reaches the solver (the TODO at line 264).
LengthApply(c, sv, rows) == {[sv |-> sv, rows |-> rows, err |-> "TypeError"]}

\* HorizontalLengthConstraint.apply(solver): `abs(...)` on a cassowary
\* expression raises TypeError (the TODO at line 278).
HorizontalLengthApply(c, sv, rows) == {[sv |-> sv, rows |-> rows, err |-> "TypeError"]}

\* constraint.apply(solver), dispatched on the constraint's class.
Apply(c, sv, rows) ==
    CASE c.kind = "FixedConstraint" -> FixedApply(c, sv, rows)
      [] c.kind = "HorizontalConstraint" -> HorizontalApply(c, sv, rows)
      [] c.kind = "VerticalConstraint" -> VerticalApply(c, sv, rows)
      [] c.kind = "LengthConstraint" -> LengthApply(c, sv, rows)
      [] c.kind = "HorizontalLengthConstraint" -> HorizontalLengthApply(c, sv, rows)

\* `for constraint in self.constraints: constraint.apply(solver)`: the possible
\* <<variable values, exception>> when the loop ends or an apply raises.
RECURSIVE ApplyAll(_, _, _)
ApplyAll(cs, sv, rows) ==
    IF cs = <<>> THEN {[sv |-> sv, err |-> "none"]}
    ELSE UNION {IF r.err # "none" THEN {[sv |-> r.sv, err |-> r.err]}
                ELSE ApplyAll(Tail(cs), r.sv, r.rows) :
                   r \in Apply(Head(cs), sv, rows)}

\* A plausible slip: solve that also writes the solved values into the points.
SolveAndWrite(d) ==
    /\ Idle
    /\ \E o \in ApplyAll(constraints[d], solver_variables, {}) :
          /\ solver_variables' = o.sv
          /\ px' = [p \in Points |-> o.sv[p][1]]
          /\ py' = [p \in Points |-> o.sv[p][2]]
          /\ err' = o.err
    /\ call' = Call("solve", d, <<>>, 0)
    /\ prev' = LastSolve
    /\ solved' = TRUE
    /\ ret' = "None" /\ snap' = NoSnap
    /\ UNCHANGED <<membershipVars, constraints, visibleVars, todo>>

\* Drawing.solve(): a fresh SimplexSolver, then every constraint applied in order.
Solve(d) ==
    /\ Idle
    /\ \E o \in ApplyAll(constraints[d], solver_variables, {}) :
          /\ solver_variables' = o.sv
          /\ err' = o.err
    /\ call' = Call("solve", d, <<>>, 0)
    /\ prev' = LastSolve
    /\ solved' = TRUE
    /\ ret' = "None" /\ snap' = NoSnap
    /\ UNCHANGED <<membershipVars, constraints, visibleVars, px, py, todo>>

\* The entity is in a layer of the drawing's layers list.
InDrawing(d, e) ==
    \E i \in 1 .. Len(layers[d]) : Contains(entities[layers[d][i]], e)

\* Drawing.update() -> Layer.update() -> entity.update(): Point.update copies
\* the solver variables' values into x and y, LayerEntity.update does nothing.
Update(d) ==
    /\ Idle
    /\ px' = [p \in Points |-> IF InDrawing(d, p) THEN solver_variables[p][1] ELSE px[p]]
    /\ py' = [p \in Points |-> IF InDrawing(d, p) THEN solver_variables[p][2] ELSE py[p]]
    /\ call' = Call("update", d, <<>>, 0)
    /\ prev' = LastSolve
    /\ ret' = "None" /\ err' = "none" /\ snap' = NoSnap
    /\ UNCHANGED <<membershipVars, constraints, visibleVars, solver_variables, todo,
                   solved>>

\* The ascending list of a set of entities.
RECURSIVE ListOf(_)
ListOf(S) ==
    IF S = {} THEN <<>>
    ELSE LET m == CHOOSE x \in S : \A y \in S : x <= y
         IN  <<m>> \o ListOf(S \ {m})

\* The tests' set-up, generalised: drawing 1 holds layer 1 (drawing.add_layer),
\* the other layers are in no drawing; point 1, constructed at (0, 0), and the
\* segment are in layer 1; point 2, constructed at any coordinates, was added
\* to some layer or to none (layer.add_entity, in order).
InitSolve ==
    /\ layers = [d \in Drawings |-> IF d = 1 THEN <<1>> ELSE <<>>]
    /\ layerDrawing = [l \in Layers |-> IF l = 1 THEN 1 ELSE None]
    /\ constraints = [d \in Drawings |-> <<>>]
    /\ entityLayer \in [AllEntities -> Layers \cup {None}]
    /\ \A e \in AllEntities \ {2} : entityLayer[e] = 1
    /\ entities = [l \in Layers |-> ListOf({e \in AllEntities : entityLayer[e] = l})]
    /\ layerVisible = [l \in Layers |-> TRUE]
    /\ entityVisible = [e \in AllEntities |-> TRUE]
    /\ InitPoints
    /\ px[1] = 0 /\ py[1] = 0
    /\ InitHistory

NextSolve ==
    \/ \E d \in ConstrainedDrawings, c \in ConstraintInputs : AddConstraint(d, c.kind, c.args)
    \/ \E d \in ConstrainedDrawings : Solve(d)
    \/ \E d \in ConstrainedDrawings : Update(d)

SpecSolve == InitSolve /\ [][NextSolve]_vars


(* --------------------------- specifications --------------------------- *)
Next ==
    \/ \E d \in Drawings, l \in Layers : AddLayer(d, l)
    \/ \E d \in Drawings, l \in Layers : RemoveLayer(d, l)
    \/ \E l \in Layers : LayerHide(l)
    \/ \E l \in Layers : LayerShow(l)
    \/ \E d \in Drawings, a \in LayersArgs, exclude \in ExcludeArgs(Layers) :
          HideLayers(d, a.given, a.list, exclude)
    \/ \E d \in Drawings, a \in LayersArgs, exclude \in ExcludeArgs(Layers) :
          ShowLayers(d, a.given, a.list, exclude)
    \/ \E d \in Drawings, l \in Layers : IsolateLayer(d, l)
    \/ LoopStep

Spec == Init /\ [][Next]_vars

NextEntity ==
    \/ \E l \in Layers, e \in Entities : AddEntity(l, e)
    \/ \E l \in Layers, e \in Entities : RemoveEntity(l, e)
    \/ \E l \in Layers : LayerHide(l)
    \/ \E l \in Layers : LayerShow(l)
    \/ \E e \in Entities : EntityHide(e)
    \/ \E e \in Entities : EntityShow(e)
    \/ \E l \in Layers, exclude \in {{}, {1}}, visible \in BOOLEAN :
          SetEntities(l, exclude, visible)
    \/ \E e \in Entities : IsVisible(e)

SpecEntity == Init /\ [][NextEntity]_vars

(* ------------------------------ properties ---------------------------- *)

\* C1: after any sequence of add_layer / remove_layer calls every layer is in
\* at most one drawing's layers list and at most once in it, and a layer is in
\* D.layers exactly when its drawing attribute is D (None exactly when the
\* layer is in no drawing).
C1_LayerMembership ==
    \A l \in Layers :
        /\ Cardinality({d \in Drawings : Contains(layers[d], l)}) <= 1
        /\ \A d \in Drawings : Count(layers[d], l) <= 1
        /\ \A d \in Drawings : Contains(layers[d], l) <=> layerDrawing[l] = d
        /\ layerDrawing[l] = None <=> \A d \in Drawings : ~Contains(layers[d], l)

\* A layer that belonged to another drawing has just been added to a drawing.
C1_Witness ==
    /\ call.op = "add_layer"
    /\ call.from \notin {None, call.self}
    /\ Contains(layers[call.self], call.args[1])
    /\ layers[call.from] # <<>>

\* C2: add_entity moves the entity: it leaves the old layer's list, is appended
\* to the new layer's list and entity.layer is the new layer, so the old
\* layer's entity_count drops by one and the new one's rises by one; re-adding
\* to the same layer keeps that layer's entity_count; remove_entity on a layer
\* the entity is not bound to changes no entities list and no entity.layer.
C2_AddEntityMoves ==
    [][/\ call'.op = "add_entity" =>
             LET l == call'.self
                 e == call'.args[1]
                 l1 == entityLayer[e]
             IN  /\ entityLayer'[e] = l
                 /\ Contains(entities'[l], e)
                 /\ l1 \notin {None, l} =>
                       /\ entities'[l1] = ListRemove(entities[l1], e)
                       /\ ~Contains(entities'[l1], e)
                       /\ entities'[l] = Append(entities[l], e)
                       /\ Len(entities'[l1]) = Len(entities[l1]) - 1
                       /\ Len(entities'[l]) = Len(entities[l]) + 1
                 /\ l1 = l => Len(entities'[l]) = Len(entities[l])
       /\ (call'.op = "remove_entity" /\ entityLayer[call'.args[1]] # call'.self) =>
             entities' = entities /\ entityLayer' = entityLayer]_vars

\* An entity has just been moved out of a layer that still holds another entity.
C2_Witness ==
    /\ call.op = "add_entity"
    /\ call.from \notin {None, call.self}
    /\ ~Contains(entities[call.from], call.args[1])
    /\ entities[call.from] # <<>>
    /\ Len(entities[call.self]) = 1

\* C3: during isolate_layer(layer) the layer is never hidden, and when the call
\* has returned the layer is visible and every other layer of the drawing's
\* layers list is hidden.
C3_IsolateLayer ==
    call.op = "isolate_layer" =>
        /\ layerVisible[call.args[1]]
        /\ Idle => \A i \in 1 .. Len(layers[call.self]) :
                      layers[call.self][i] # call.args[1]
                          => ~layerVisible[layers[call.self][i]]

\* isolate_layer has returned on a drawing that holds the layer and another one.
C3_Witness ==
    /\ call.op = "isolate_layer"
    /\ Idle
    /\ Contains(layers[call.self], call.args[1])
    /\ Len(layers[call.self]) >= 2

\* C4: Layer.hide() and Layer.show() change that layer's visible flag and
\* nothing else (no entity's flag, no other layer's flag, no membership), and
\* after hide() then show() on a layer that was visible, each entity of the
\* layer has the is_visible() result it had before the hide().
C4_HideShowFrame ==
    [][/\ call'.op \in {"hide", "show"} =>
             /\ entityVisible' = entityVisible
             /\ \A l2 \in Layers \ {call'.self} : layerVisible'[l2] = layerVisible[l2]
             /\ layerVisible'[call'.self] = (call'.op = "show")
             /\ entities' = entities /\ entityLayer' = entityLayer
       /\ (call'.op = "show" /\ snap' # NoSnap) =>
             \A e \in AllEntities :
                 entityLayer'[e] = call'.self => IsVisibleResult(e)' = snap'[e]]_vars

\* show() has just followed hide() on a visible layer that holds an entity
\* that was visible and one that was hidden individually.
C4_Witness ==
    /\ call.op = "show"
    /\ snap # NoSnap
    /\ \E e1, e2 \in Entities :
          /\ entityLayer[e1] = call.self /\ snap[e1] = "True"
          /\ entityLayer[e2] = call.self /\ snap[e2] = "False"

\* C5: is_visible() returns True exactly when the entity's flag and its layer's
\* flag are both True and returns False otherwise, in every membership state,
\* an entity in no layer included.
C5_IsVisible ==
    call.op = "is_visible" =>
        /\ err = "none"
        /\ ret \in {"True", "False"}
        /\ ret = "True" <=>
              /\ entityVisible[call.self]
              /\ entityLayer[call.self] # None
              /\ layerVisible[entityLayer[call.self]]

\* C6: after solve() has returned and update() has followed on the same
\* drawing, every HorizontalConstraint of the drawing on two points in layers
\* of the drawing has p1.y = p2.y and every VerticalConstraint has p1.x = p2.x
\* (with both in the list, added one after the other, the two points coincide).
C6_HorizontalVerticalSolved ==
    (call.op = "update" /\ prev = [op |-> "solve", self |-> call.self]) =>
        \A i \in 1 .. Len(constraints[call.self]) :
            LET c == constraints[call.self][i]
            IN  (/\ c.kind \in {"HorizontalConstraint", "VerticalConstraint"}
                 /\ InDrawing(call.self, c.args[1])
                 /\ InDrawing(call.self, c.args[2])) =>
                    /\ c.kind = "HorizontalConstraint" => py[c.args[1]] = py[c.args[2]]
                    /\ c.kind = "VerticalConstraint" => px[c.args[1]] = px[c.args[2]]

\* solve() and update() have run on the list <<Horizontal, Vertical>> over two
\* points of the drawing, which now coincide.
C6_Witness ==
    /\ call.op = "update"
    /\ prev = [op |-> "solve", self |-> call.self]
    /\ constraints[call.self] = <<Constraint("HorizontalConstraint", <<1, 2>>),
                                  Constraint("VerticalConstraint", <<1, 2>>)>>
    /\ InDrawing(call.self, 1) /\ InDrawing(call.self, 2)
    /\ px[1] = px[2] /\ py[1] = py[2]

\* C7: solve() on the list <<Fixed(p1), Fixed(p2), Horizontal(p1, p2)>> with
\* p1.y # p2.y raises RequiredFailure, and neither fixed point is moved: its
\* solver variables still hold its coordinates.
C7_FixedConflict ==
    (/\ call.op = "solve"
     /\ constraints[call.self] = <<Constraint("FixedConstraint", <<1>>),
                                   Constraint("FixedConstraint", <<2>>),
                                   Constraint("HorizontalConstraint", <<1, 2>>)>>
     /\ py[1] # py[2]) =>
        /\ err = "RequiredFailure"
        /\ \A p \in Points : solver_variables[p] = <<px[p], py[p]>>

\* solve() has just failed on that list.
C7_Witness ==
    /\ call.op = "solve"
    /\ Len(constraints[call.self]) = 3
    /\ constraints[call.self][1].kind = "FixedConstraint"
    /\ constraints[call.self][2].kind = "FixedConstraint"
    /\ constraints[call.self][3].kind = "HorizontalConstraint"
    /\ py[1] # py[2]
    /\ err = "RequiredFailure"

\* C8: with a HorizontalConstraint and then a length constraint of length L on
\* the two points, solve() completes without error, and after update() the
\* points have equal y and p2.x - p1.x = L.
C8_LengthSolved ==
    (/\ call.op \in {"solve", "update"}
     /\ \E k \in {"LengthConstraint", "HorizontalLengthConstraint"} :
           constraints[call.self] = <<Constraint("HorizontalConstraint", <<1, 2>>),
                                      Constraint(k, <<1, 2, TestLength>>)>>) =>
        /\ call.op = "solve" => err = "none"
        /\ (call.op = "update" /\ InDrawing(call.self, 1) /\ InDrawing(call.self, 2)) =>
              py[1] = py[2] /\ px[2] - px[1] = TestLength

\* C9: a HorizontalConstraint can be created from a single Segment and added
\* to the drawing.
C9_SegmentHorizontal ==
    (/\ call.op = "HorizontalConstraint"
     /\ Len(call.args) = 1
     /\ call.args[1] \in Segments) =>
        /\ err = "none"
        /\ constraints[call.self] # <<>>
        /\ constraints[call.self][Len(constraints[call.self])]
              = Constraint("HorizontalConstraint", call.args)

\* C10: solve() changes no point's x or y and not the constraints list; x and
\* y change only in update(), which sets each point in a layer of the
\* drawing's layers list to the values of its solver variables and leaves
\* every other point alone; update() before any solve() changes no point.
C10_SolveUpdateFrame ==
    [][/\ call'.op = "solve" => px' = px /\ py' = py /\ constraints' = constraints
       /\ (px' # px \/ py' # py) => call'.op = "update"
       /\ call'.op = "update" =>
             \A p \in Points :
                 IF InDrawing(call'.self, p)
                 THEN px'[p] = solver_variables[p][1] /\ py'[p] = solver_variables[p][2]
                 ELSE px'[p] = px[p] /\ py'[p] = py[p]
       /\ (call'.op = "update" /\ ~solved) => px' = px /\ py' = py]_vars

\* update() has just moved a point of the drawing to its solved values and left
\* alone a point outside the drawing whose solver variables have moved too.
C10_Witness ==
    /\ call.op = "update"
    /\ prev = [op |-> "solve", self |-> call.self]
    /\ \E p, q \in Points :
          /\ InDrawing(call.self, p)
          /\ <<px[p], py[p]>> = solver_variables[p]
          /\ <<px[p], py[p]>> # <<0, 0>>
          /\ ~InDrawing(call.self, q)
          /\ <<px[q], py[q]>> # solver_variables[q]

====
